---------------------------- MODULE Spec2Model ----------------------------
(***************************************************************************)
(* Model of backend/server.py: the /api/realtime pipeline                  *)
(*   handle_query -> get_links_from_serpapi -> scrape_links -> query_gemini *)
(*                                                                         *)
(* Text is a sequence of tokens: a token is one whitespace character       *)
(* (" ", "\n", "\t") or an unbroken run of non-whitespace characters.      *)
(* str.strip, concatenation and truthiness act on these sequences as they  *)
(* act on Python strings (adjacent runs are kept as separate tokens).  The *)
(* emoji that prefix the fixed messages of the source are left out of the  *)
(* message tokens.  An exception that leaves handle_query is the           *)
(* framework's 500 response; driver.quit() itself does not raise.          *)
(***************************************************************************)
EXTENDS Naturals, Sequences, FiniteSets

VARIABLES
    pc,         \* position of the request in handle_query / the function under test
    body,       \* the request's JSON object ("data")
    question,   \* handle_query's local "question"
    links,      \* handle_query's local "links" (result of get_links_from_serpapi)
    idx,        \* scrape_links: position of "url" in "links"
    page,       \* scrape_links: the page the driver currently shows
    extracted,  \* scrape_links: the accumulated text
    session,    \* the browser session: "none", "open", "closed"
    visits,     \* history: one record per driver.get, in call order
    calls,      \* history: outbound calls in call order
    geminiArgs, \* history: the arguments query_gemini was called with
    response,   \* what the endpoint answered
    organic     \* the search API's organic_results the resolver is applied to

vars == <<pc, body, question, links, idx, page, extracted, session, visits,
          calls, geminiArgs, response, organic>>

-----------------------------------------------------------------------------
(* Bounds of the model *)

\* longest organic_results list of a search response in the pipeline
MaxOrganic == 3
\* longest organic_results list the resolver alone is applied to
MaxSerpLen == 7
\* most tables of a page, and most rows of a table, the tabular strategy alone is applied to
MaxTables == 1
MaxRows == 2

-----------------------------------------------------------------------------
(* Text *)

WS == {" ", "\n", "\t"}

RECURSIVE lstrip(_)
lstrip(s) == IF s # <<>> /\ Head(s) \in WS THEN lstrip(Tail(s)) ELSE s

RECURSIVE rstrip(_)
rstrip(s) ==
    IF s # <<>> /\ s[Len(s)] \in WS THEN rstrip(SubSeq(s, 1, Len(s) - 1)) ELSE s

\* str.strip()
strip(s) == rstrip(lstrip(s))

\* truthiness of a str, a list
Truthy(s) == Len(s) > 0

\* str.startswith
startswith(s, p) == Len(s) >= Len(p) /\ SubSeq(s, 1, Len(p)) = p

\* "".join of a list of strings
RECURSIVE ConcatAll(_)
ConcatAll(ss) == IF ss = <<>> THEN <<>> ELSE Head(ss) \o ConcatAll(Tail(ss))

\* sep.join(texts)
RECURSIVE join(_, _)
join(sep, texts) ==
    IF texts = <<>> THEN <<>>
    ELSE IF Len(texts) = 1 THEN texts[1]
    ELSE texts[1] \o sep \o join(sep, Tail(texts))

\* s[:n]
Take(s, n) == SubSeq(s, 1, IF n < Len(s) THEN n ELSE Len(s))

is_valid_text(text) ==
    Truthy(text) /\ Len(strip(text)) > 0 /\ ~startswith(strip(text), <<"By", " ">>)

-----------------------------------------------------------------------------
(* Search Resolver: get_links_from_serpapi *)

max_results == 5

\* The link of the organic result ranked i; NoLink is r.get("link") of an
\* entry without a link (None), or with an empty one.
UrlOf(i) == <<"u1", "u2", "u3", "u4", "u5", "u6", "u7", "u8", "u9">>[i]
NoLink == <<>>

\* Every organic_results list of exactly n entries: the entry ranked i either
\* carries the link <<UrlOf(i)>> or carries none.
OrganicLists(n) ==
    { [i \in 1..n |-> [link |-> IF i \in S THEN <<UrlOf(i)>> ELSE NoLink]] :
        S \in SUBSET (1..n) }

OrganicUpTo(n) == UNION { OrganicLists(k) : k \in 0..n }

\* What requests.get / raise_for_status / resp.json make of the call.
SerpFailures == {"network_error", "http_error", "malformed_body"}

SerpResponses ==
    { [kind |-> k, organic |-> <<>>] : k \in SerpFailures } \cup
    { [kind |-> "ok", organic |-> o] : o \in OrganicUpTo(MaxOrganic) }

\* A resolver that drops the link-less entries before it truncates.
LinksOf_filterFirst(results, max) ==
    LET HasLink(r) == Truthy(r.link)
        kept == Take(SelectSeq(results, HasLink), max)
    IN  [i \in 1..Len(kept) |-> kept[i].link]

\* [r.get("link") for r in organic[:max] if r.get("link")]
LinksOf(results, max) ==
    LET HasLink(r) == Truthy(r.link)
        kept == SelectSeq(Take(results, max), HasLink)
    IN  [i \in 1..Len(kept) |-> kept[i].link]

\* try: ... return [...]  except Exception: return []
get_links_from_serpapi(resp, max) ==
    IF resp.kind = "ok" THEN LinksOf(resp.organic, max) ELSE <<>>

-----------------------------------------------------------------------------
(* Content Extractor: the four strategies of scrape_links.  Each strategy is *)
(* the sequence of what it appends to "extracted", one entry per item of its *)
(* loop (<<>> for an item that appends nothing).                             *)

\* strategy 1, one element of //h1 | //h2 | //h3 | //p | //a
GenericEmit(el) ==
    LET text == strip(el.text)
    IN  IF el.tag = "a"
        THEN IF Truthy(text) /\ Truthy(el.href)
             THEN <<"[">> \o text \o <<"](">> \o el.href \o <<")", "\n">>
             ELSE <<>>
        ELSE IF is_valid_text(text) THEN text \o <<"\n">> ELSE <<>>

GenericEmits(pg) == [i \in 1..Len(pg.elems) |-> GenericEmit(pg.elems[i])]

\* cafe.find_element(cls).text.strip() if cafe.find_elements(cls) else ""
SubText(found) == IF Truthy(found) THEN strip(found[1]) ELSE <<>>

CardRecord(name, category, price) ==
    <<"\n", "Name:", " ">> \o name \o <<"\n", "Category:", " ">> \o category
        \o <<"\n", "Price", " ", "for", " ", "two:", " ">> \o price \o <<"\n">>

\* strategy 2, one element of class sc-1q7bklc-10
CardEmit(cafe) ==
    LET name == SubText(cafe.name)
        category == SubText(cafe.category)
        price == SubText(cafe.price)
    IN  IF Truthy(name) \/ Truthy(category) \/ Truthy(price)
        THEN CardRecord(name, category, price)
        ELSE <<>>

CardEmits(pg) == [i \in 1..Len(pg.cafes) |-> CardEmit(pg.cafes[i])]

DirRecord(name, rating, address) ==
    <<"\n", "Name:", " ">> \o name \o <<"\n", "Rating:", " ">> \o rating
        \o <<"\n", "Address:", " ">> \o address \o <<"\n">>

\* strategy 3, position i of range(len(names)) (positions count from 1 here)
DirEmit(pg, i) ==
    LET name == IF i <= Len(pg.names) THEN strip(pg.names[i]) ELSE <<>>
        rating == IF i <= Len(pg.ratings) THEN strip(pg.ratings[i]) ELSE <<>>
        address == IF i <= Len(pg.addresses) THEN strip(pg.addresses[i]) ELSE <<>>
    IN  IF Truthy(name) \/ Truthy(rating) \/ Truthy(address)
        THEN DirRecord(name, rating, address)
        ELSE <<>>

DirEmits(pg) == [i \in 1..Len(pg.names) |-> DirEmit(pg, i)]

\* Cells taken as they stand in the row.
RowCells_documentOrder(row) == row

\* row.find_elements(TAG_NAME, "th") + row.find_elements(TAG_NAME, "td");
\* a row is its th and td cells in document order
RowCells(row) ==
    LET IsTh(c) == c.tag = "th"
        IsTd(c) == c.tag = "td"
    IN  SelectSeq(row, IsTh) \o SelectSeq(row, IsTd)

\* texts = [cell.text.strip() for cell in cells]
RowTexts(row) == LET cells == RowCells(row) IN [i \in 1..Len(cells) |-> strip(cells[i].text)]

\* strategy 4, one row: if any(texts): extracted += "\t".join(texts) + "\n"
RowLine(row) ==
    LET texts == RowTexts(row)
    IN  IF \E i \in 1..Len(texts) : Truthy(texts[i])
        THEN join(<<"\t">>, texts) \o <<"\n">>
        ELSE <<>>

\* for table in tables: for row in table.find_elements(TAG_NAME, "tr")
TableEmits(tables) ==
    LET rows == ConcatAll(tables) IN [i \in 1..Len(rows) |-> RowLine(rows[i])]

\* strategy 4 run to its end
TableLines(tables) == ConcatAll(TableEmits(tables))

-----------------------------------------------------------------------------
(* Pages the driver may show *)

NoPage ==
    [id |-> "none", elems |-> <<>>, cafes |-> <<>>, names |-> <<>>,
     ratings |-> <<>>, addresses |-> <<>>, tables |-> <<>>]

\* a listing page: one card with only a name, one card with all three fields
CafeCardA == [name |-> << <<" ", "Brew", " ">> >>, category |-> <<>>, price |-> <<>>]
CafeCardB ==
    [name |-> << <<"Bean">> >>, category |-> << <<"Cafe">> >>,
     price |-> << <<"500">>, <<"900">> >>]

CafePage == [NoPage EXCEPT !.id = "cafe", !.cafes = <<CafeCardA, CafeCardB>>]

\* a page with something for every strategy, and items every strategy drops
MixedPage ==
    [id |-> "mixed",
     elems |-> << [tag |-> "h1", text |-> <<"Top", " ", "cafes", " ">>, href |-> <<>>],
                  [tag |-> "p", text |-> <<"By", " ", "John">>, href |-> <<>>],
                  [tag |-> "a", text |-> <<"More">>, href |-> <<"http://x">>] >>,
     cafes |-> << [name |-> <<>>, category |-> << <<" ">> >>, price |-> <<>>],
                  CafeCardA >>,
     names |-> << <<"Joe's">>, <<" ">> >>,
     ratings |-> << <<"4.5">> >>,
     addresses |-> <<>>,
     tables |-> << << << [tag |-> "th", text |-> <<"Name">>],
                         [tag |-> "th", text |-> <<"Price">>] >>,
                      << [tag |-> "td", text |-> <<" ", "Latte">>],
                         [tag |-> "td", text |-> <<>>] >> >> >>]

Pages == {CafePage, MixedPage}

-----------------------------------------------------------------------------
(* Answer Synthesizer: query_gemini *)

\* What requests.post and the parsing of its body make of the call: a 200 with
\* generated text, another status, or an exception (network, malformed body).
GeminiReplies ==
    { [kind |-> "text", text |-> <<" ", "Answer", "\n">>],
      [kind |-> "text", text |-> <<>>],
      [kind |-> "status", text |-> <<"503">>],
      [kind |-> "raise", text |-> <<"timeout">>] }

query_gemini(user_question, scraped_text, reply) ==
    IF reply.kind = "text" THEN strip(reply.text)
    ELSE IF reply.kind = "status" THEN <<"Gemini", " ", "Error:", " ">> \o reply.text
    ELSE <<"Gemini", " ", "request", " ", "failed:", " ">> \o reply.text

-----------------------------------------------------------------------------
(* Pipeline Orchestrator: handle_query, and scrape_links step by step *)

MsgMissing == <<"Missing 'question' in request.">>
MsgNoResults == <<"No search results found.">>
MsgNoContent == <<"No content extracted from search results.">>

\* data: a JSON object with or without a "question"
Questions == { <<>>, <<" ">>, <<"best", " ", "cafes">> }
Bodies == { [has |-> FALSE, q |-> <<>>] } \cup { [has |-> TRUE, q |-> q] : q \in Questions }

\* data.get("question", "")
QuestionOf(data) == IF data.has THEN data.q ELSE <<>>

\* A handler without the test of the question.
MissingQuestion_never(q) == FALSE

\* if not question
MissingQuestion(q) == ~Truthy(q)

\* A handler without the test of the links.
NoLinks_never(l) == FALSE

\* if not links
NoLinks(l) == ~Truthy(l)

\* A handler without the test of the scraped text.
NoContent_never(scraped) == FALSE

\* if not scraped.strip()
NoContent(scraped) == ~Truthy(strip(scraped))

\* except (TimeoutException, WebDriverException): continue
NavOutcomes == {"ok", "TimeoutException", "WebDriverException", "OtherException"}
LoadFailures == {"TimeoutException", "WebDriverException"}

\* An except clause that names TimeoutException alone.
NavCaught_timeoutOnly(outcome) == outcome = "TimeoutException"

NavCaught(outcome) == outcome \in LoadFailures

NoResponse == [status |-> 0, answer |-> <<>>]
\* an exception that leaves handle_query: the framework answers 500
ServerError == [status |-> 500, answer |-> <<>>]

Init ==
    /\ pc = "recv"
    /\ body \in Bodies
    /\ question = <<>>
    /\ links = <<>>
    /\ idx = 0
    /\ page = NoPage
    /\ extracted = <<>>
    /\ session = "none"
    /\ visits = <<>>
    /\ calls = <<>>
    /\ geminiArgs = <<>>
    /\ response = NoResponse
    /\ organic = <<>>

\* question = data.get("question", ""); if not question: return 400
Validate ==
    /\ pc = "recv"
    /\ question' = QuestionOf(body)
    /\ IF MissingQuestion(QuestionOf(body))
       THEN /\ response' = [status |-> 400, answer |-> MsgMissing]
            /\ pc' = "done"
       ELSE /\ pc' = "search"
            /\ UNCHANGED response
    /\ UNCHANGED <<body, links, idx, page, extracted, session, visits, calls,
                   geminiArgs, organic>>

\* links = get_links_from_serpapi(question, SERPAPI_KEY); if not links: return
Search ==
    /\ pc = "search"
    /\ \E resp \in SerpResponses :
        LET found == get_links_from_serpapi(resp, max_results)
        IN  /\ links' = found
            /\ organic' = resp.organic
            /\ calls' = Append(calls, [to |-> "search", result |-> resp.kind])
            /\ IF NoLinks(found)
               THEN /\ response' = [status |-> 200, answer |-> MsgNoResults]
                    /\ pc' = "done"
               ELSE /\ pc' = "acquire"
                    /\ UNCHANGED response
    /\ UNCHANGED <<body, question, idx, page, extracted, session, visits, geminiArgs>>

\* A loop that ends after its first pass (break for continue).
LoopHead_break(i) == IF i <= 1 /\ i <= Len(links) THEN "nav" ELSE "quit"

\* the head of the for loop: the next url, or past the loop
LoopHead(i) == IF i <= Len(links) THEN "nav" ELSE "quit"

\* driver = webdriver.Chrome(options=options); driver.set_page_load_timeout(..)
Acquire ==
    /\ pc = "acquire"
    /\ \E o \in {"ok", "chrome_raises", "set_timeout_raises"} :
        /\ calls' = Append(calls, [to |-> "browser", result |-> o])
        /\ session' = IF o = "chrome_raises" THEN "none" ELSE "open"
        /\ IF o = "ok"
           THEN /\ idx' = 1
                /\ pc' = LoopHead(1)
                /\ UNCHANGED response
           ELSE /\ response' = ServerError
                /\ pc' = "done"
                /\ UNCHANGED idx
    /\ UNCHANGED <<body, question, links, page, extracted, visits, geminiArgs, organic>>

\* try: driver.get(url); time.sleep(3)  except (...): continue
Navigate ==
    /\ pc = "nav"
    /\ \E o \in NavOutcomes, pg \in Pages :
        /\ visits' = Append(visits, [url |-> links[idx], nav |-> o,
                                     page |-> IF o = "ok" THEN pg.id ELSE "none",
                                     ran |-> <<>>, raised |-> "none"])
        /\ IF o = "ok"
           THEN /\ page' = pg
                /\ pc' = "generic"
                /\ UNCHANGED <<idx, response>>
           ELSE IF NavCaught(o)
           THEN /\ idx' = idx + 1
                /\ pc' = LoopHead(idx + 1)
                /\ UNCHANGED <<page, response>>
           ELSE /\ response' = ServerError
                /\ pc' = "done"
                /\ UNCHANGED <<page, idx>>
    /\ UNCHANGED <<body, question, links, extracted, session, calls, geminiArgs, organic>>

\* How far a strategy's loop gets: to its end, or an exception while its last
\* item (or find_elements itself, when there is none) is being processed.
StrategyRuns(n) ==
    { [raised |-> FALSE, items |-> n],
      [raised |-> TRUE, items |-> IF n = 0 THEN 0 ELSE n - 1] }

\* try: <strategy>  except: continue
\* then: where control goes when the strategy ends without an exception.
Strategy(name, emits, then) ==
    \E run \in StrategyRuns(Len(emits)) :
        /\ extracted' = extracted \o ConcatAll(Take(emits, run.items))
        /\ visits' = [visits EXCEPT ![Len(visits)].ran = Append(@, name),
                                    ![Len(visits)].raised =
                                        IF run.raised THEN name ELSE @]
        /\ IF run.raised \/ then = "next"
           THEN /\ idx' = idx + 1
                /\ pc' = LoopHead(idx + 1)
           ELSE /\ pc' = then
                /\ UNCHANGED idx
        /\ UNCHANGED <<body, question, links, page, session, calls, geminiArgs,
                       response, organic>>

GenericStrategy == pc = "generic" /\ Strategy("generic", GenericEmits(page), "cards")

CardStrategy == pc = "cards" /\ Strategy("cards", CardEmits(page), "directory")

DirectoryStrategy == pc = "directory" /\ Strategy("directory", DirEmits(page), "tables")

TableStrategy == pc = "tables" /\ Strategy("tables", TableEmits(page.tables), "next")

\* driver.quit(); return extracted -- and handle_query's test of it
Quit ==
    /\ pc = "quit"
    /\ session' = "closed"
    /\ IF NoContent(extracted)
       THEN /\ response' = [status |-> 200, answer |-> MsgNoContent]
            /\ pc' = "done"
       ELSE /\ pc' = "synth"
            /\ UNCHANGED response
    /\ UNCHANGED <<body, question, links, idx, page, extracted, visits, calls,
                   geminiArgs, organic>>

\* answer = query_gemini(question, scraped, GEMINI_API_KEY); return answer
Synthesize ==
    /\ pc = "synth"
    /\ \E reply \in GeminiReplies :
        /\ calls' = Append(calls, [to |-> "gemini", result |-> reply.kind])
        /\ geminiArgs' = Append(geminiArgs,
                                [user_question |-> question, scraped_text |-> extracted])
        /\ response' = [status |-> 200,
                        answer |-> query_gemini(question, extracted, reply)]
        /\ pc' = "done"
    /\ UNCHANGED <<body, question, links, idx, page, extracted, session, visits, organic>>

Next ==
    \/ Validate
    \/ Search
    \/ Acquire
    \/ Navigate
    \/ GenericStrategy
    \/ CardStrategy
    \/ DirectoryStrategy
    \/ TableStrategy
    \/ Quit
    \/ Synthesize

Spec == Init /\ [][Next]_vars

-----------------------------------------------------------------------------
(* The Search Resolver alone, applied to every organic_results list of up to *)
(* MaxSerpLen entries.                                                       *)

Idle ==
    /\ body = [has |-> FALSE, q |-> <<>>]
    /\ question = <<>>
    /\ idx = 0
    /\ session = "none"
    /\ visits = <<>>
    /\ calls = <<>>
    /\ geminiArgs = <<>>
    /\ response = NoResponse

InitSerp ==
    /\ pc = "resolve"
    /\ organic \in OrganicUpTo(MaxSerpLen)
    /\ links = <<>>
    /\ page = NoPage
    /\ extracted = <<>>
    /\ Idle

Resolve ==
    /\ pc = "resolve"
    /\ links' = get_links_from_serpapi([kind |-> "ok", organic |-> organic], max_results)
    /\ pc' = "resolved"
    /\ UNCHANGED <<body, question, idx, page, extracted, session, visits, calls,
                   geminiArgs, response, organic>>

SpecSerp == InitSerp /\ [][Resolve]_vars

-----------------------------------------------------------------------------
(* The tabular strategy alone, applied to pages of up to MaxTables tables of *)
(* up to MaxRows rows each.                                                  *)

RowHeader == << [tag |-> "th", text |-> <<"Name">>], [tag |-> "th", text |-> <<" ", "Price", " ">>] >>
RowData == << [tag |-> "td", text |-> <<"Latte", "\n">>], [tag |-> "td", text |-> <<>>] >>
RowMixed == << [tag |-> "td", text |-> <<"120">>], [tag |-> "th", text |-> <<"Total">>] >>
RowBlank == << [tag |-> "td", text |-> <<" ">>], [tag |-> "th", text |-> <<>>] >>

RowMultiline == << [tag |-> "td", text |-> <<"Flat", "\n", "white">>], [tag |-> "td", text |-> <<"150">>] >>
RowSingle == << [tag |-> "td", text |-> <<"\t", "Tea">>] >>
RowEmpty == <<>>

RowSamples == {RowHeader, RowData, RowMixed, RowBlank, RowMultiline, RowSingle, RowEmpty}

SeqsUpTo(S, n) == UNION { [1..k -> S] : k \in 0..n }

TableInputs == SeqsUpTo(SeqsUpTo(RowSamples, MaxRows), MaxTables)

InitTables ==
    /\ pc = "tabulate"
    /\ \E t \in TableInputs : page = [NoPage EXCEPT !.id = "tables", !.tables = t]
    /\ extracted = <<>>
    /\ links = <<>>
    /\ organic = <<>>
    /\ Idle

Tabulate ==
    /\ pc = "tabulate"
    /\ extracted' = extracted \o TableLines(page.tables)
    /\ pc' = "tabulated"
    /\ UNCHANGED <<body, question, links, idx, page, session, visits, calls,
                   geminiArgs, response, organic>>

SpecTables == InitTables /\ [][Tabulate]_vars

-----------------------------------------------------------------------------
(* Properties *)

Done == pc = "done"

\* the services called so far, in call order
CallsTo == [i \in 1..Len(calls) |-> calls[i].to]

IsPrefix(s, t) == Len(s) <= Len(t) /\ SubSeq(t, 1, Len(s)) = s

\* the pieces of s between the tokens equal to sep
RECURSIVE SplitOn(_, _)
SplitOn(s, sep) ==
    IF \A k \in 1..Len(s) : s[k] # sep THEN <<s>>
    ELSE LET k == CHOOSE k \in 1..Len(s) : s[k] = sep /\ \A j \in 1..(k - 1) : s[j] # sep
         IN  <<SubSeq(s, 1, k - 1)>> \o SplitOn(SubSeq(s, k + 1, Len(s)), sep)

C2_SearchFailureEndsRequest ==
    (/\ Len(calls) >= 1
     /\ calls[1].to = "search"
     /\ calls[1].result \in SerpFailures \/ organic = <<>>) =>
        /\ Done
        /\ response = [status |-> 200, answer |-> MsgNoResults]
        /\ CallsTo = <<"search">>
        /\ session = "none"
        /\ visits = <<>>
        /\ geminiArgs = <<>>

C2_Witness ==
    /\ Done
    /\ CallsTo = <<"search">>
    /\ calls[1].result = "http_error"
    /\ response.answer = MsgNoResults

\* every url of a non-empty result was tried and none loaded
AllLoadsFailed ==
    /\ links # <<>>
    /\ Len(visits) = Len(links)
    /\ \A i \in 1..Len(visits) : visits[i].nav \in LoadFailures

(* C3: when the result is non-empty and every url fails to load (timeout or *)
(* driver failure), the request ends with the "no content extracted" answer *)
(* and the synthesizer is never called.                                     *)
C3_AllLoadsFailNoSynthesis ==
    AllLoadsFailed =>
        /\ pc \in {"quit", "done"}
        /\ geminiArgs = <<>>
        /\ \A i \in 1..Len(calls) : calls[i].to # "gemini"
        /\ Done => response = [status |-> 200, answer |-> MsgNoContent]

C3_Witness ==
    /\ Done
    /\ AllLoadsFailed
    /\ Len(links) = 3
    /\ visits[1].nav = "TimeoutException"
    /\ visits[2].nav = "WebDriverException"
    /\ response.answer = MsgNoContent

(* C4 as stated: no request ends with a browser session acquired and not    *)
(* released.                                                                *)
C4_SessionReleased == Done => session # "open"

\* the processing of the page of visit i is over
VisitOver(i) == i < Len(visits) \/ pc \in {"nav", "quit", "synth", "done"}

(* C5 as stated: every page that loaded had all four strategies applied to  *)
(* it, whatever failed in one of them.                                      *)
C5_StrategiesIsolated ==
    \A i \in 1..Len(visits) :
        (visits[i].nav = "ok" /\ VisitOver(i)) =>
            visits[i].ran = <<"generic", "cards", "directory", "tables">>

(* C6 as stated: every request with a non-empty question ends with a 200.   *)
C6_NonEmptyQuestionAnswered200 ==
    (Done /\ Truthy(QuestionOf(body))) => response.status = 200

\* the positions of the link-bearing entries among the first n entries of results
LinkedWithin(results, n) ==
    { i \in 1..Len(results) : i <= n /\ results[i].link # NoLink }

\* out is the links at the positions P of results, in rising position
IsLinksAt(out, results, P) ==
    /\ Len(out) = Cardinality(P)
    /\ \A i \in P : out[Cardinality({k \in P : k <= i})] = results[i].link

(* C7 as stated: the resolver returns the first max_results link-bearing    *)
(* entries of the whole list, in ranking order, so min(max_results, number   *)
(* of link-bearing entries) links.                                          *)
C7_FilterBeforeTruncate ==
    pc = "resolved" =>
        LET linked == LinkedWithin(organic, Len(organic))
            first == { i \in linked : Cardinality({k \in linked : k <= i}) <= max_results }
        IN  /\ IsLinksAt(links, organic, first)
            /\ Len(links) = IF Cardinality(linked) < max_results
                            THEN Cardinality(linked) ELSE max_results

(* C7 as amended: the resolver truncates the list to its first max_results  *)
(* entries and then drops the entries lacking a link: it returns the links  *)
(* of the link-bearing entries among the first max_results entries, in      *)
(* ranking order, at most max_results of them.                              *)
C7_TruncateBeforeFilter ==
    pc = "resolved" =>
        /\ IsLinksAt(links, organic, LinkedWithin(organic, max_results))
        /\ Len(links) <= max_results

C7_Witness ==
    /\ pc = "resolved"
    /\ Len(organic) = 7
    /\ organic[1].link = NoLink
    /\ organic[3].link = NoLink
    /\ links = << <<"u2">>, <<"u4">>, <<"u5">> >>
    /\ organic[6].link # NoLink

\* scrape_links came back to handle_query
ScrapeReturned == session = "closed"

TwoCards ==
    CardRecord(<<"Brew">>, <<>>, <<>>) \o CardRecord(<<"Bean">>, <<"Cafe">>, <<"500">>)

\* three urls, two of them time out, the third shows the two-card listing
\* page and no strategy fails on it
TwoTimeoutsOneListing ==
    /\ Len(links) = 3
    /\ Len(visits) = 3
    /\ Cardinality({i \in 1..3 : visits[i].nav = "TimeoutException"}) = 2
    /\ \E i \in 1..3 :
        /\ visits[i].nav = "ok"
        /\ visits[i].page = "cafe"
        /\ visits[i].raised = "none"
        /\ VisitOver(i)

(* C8: the urls are tried one at a time in the order given, each once; a    *)
(* url that times out or fails to load has no strategy applied and the next *)
(* url is tried; and when two of three urls time out and the third yields   *)
(* two card records, the extracted text is exactly those two records and    *)
(* the synthesizer is called with it.                                       *)
C8_FailedLoadsSkipped ==
    /\ Len(visits) <= Len(links)
    /\ \A i \in 1..Len(visits) : visits[i].url = links[i]
    /\ \A i \in 1..Len(visits) :
        visits[i].nav \in LoadFailures =>
            /\ visits[i].ran = <<>>
            /\ i < Len(links) => (Len(visits) > i \/ (pc = "nav" /\ idx = i + 1))
    /\ ScrapeReturned => Len(visits) = Len(links)
    /\ (TwoTimeoutsOneListing /\ pc \in {"quit", "synth", "done"}) =>
        /\ extracted = TwoCards
        /\ Done =>
            geminiArgs = <<[user_question |-> question, scraped_text |-> TwoCards]>>

C8_Witness ==
    /\ Done
    /\ TwoTimeoutsOneListing
    /\ visits[3].nav = "TimeoutException"
    /\ visits[1].nav = "TimeoutException"
    /\ geminiArgs # <<>>
    /\ geminiArgs[1].scraped_text = TwoCards
    /\ response.answer = <<"Answer">>

\* the rows of the page whose cells are not all blank, in document order
RowsWithText(tables) ==
    LET HasText(row) == \E i \in 1..Len(row) : Truthy(strip(row[i].text))
    IN  SelectSeq(ConcatAll(tables), HasText)

\* the lines of text, each ended by "\n"
LinesOf(text) ==
    LET parts == SplitOn(text, "\n") IN SubSeq(parts, 1, Len(parts) - 1)

EndsLines(text) == text = <<>> \/ text[Len(text)] = "\n"

TrimmedCells(cells) == [i \in 1..Len(cells) |-> strip(cells[i].text)]

CellsTagged(row, tag) == LET Is(c) == c.tag = tag IN SelectSeq(row, Is)

\* no cell of the page has a line break or a tab inside its trimmed text
SingleLineCells(tables) ==
    \A t \in 1..Len(tables) : \A r \in 1..Len(tables[t]) : \A c \in 1..Len(tables[t][r]) :
        LET text == strip(tables[t][r][c].text)
        IN  \A k \in 1..Len(text) : text[k] \notin {"\n", "\t"}

\* the trimmed texts of cells joined by tabs and ended by a line break
RecordOf(cells) == join(<<"\t">>, TrimmedCells(cells)) \o <<"\n">>

(* C9 as stated: the tabular strategy emits one tab-separated line per row  *)
(* that has a non-empty cell, rows in document order, and the fields of the *)
(* line are the trimmed texts of the row's header and data cells in         *)
(* document order.                                                          *)
C9_CellsInDocumentOrder ==
    pc = "tabulated" =>
        LET rows == RowsWithText(page.tables)
            lines == LinesOf(extracted)
        IN  /\ extracted = ConcatAll([j \in 1..Len(rows) |-> RecordOf(rows[j])])
            /\ SingleLineCells(page.tables) =>
                /\ Len(lines) = Len(rows)
                /\ \A j \in 1..Len(rows) : SplitOn(lines[j], "\t") = TrimmedCells(rows[j])

\* the header cells of a row in document order, then its data cells in document order
HeaderThenData(row) == CellsTagged(row, "th") \o CellsTagged(row, "td")

(* C9 as amended: for every row that has a non-empty cell, and for no other *)
(* row, the tabular strategy appends one string, rows in document order:    *)
(* the trimmed texts of the row's header cells in document order followed   *)
(* by those of its data cells in document order, joined by tabs and ended   *)
(* by a line break.  When no cell text has a line break or tab inside, that *)
(* is one tab-separated line per such row, and a table of one header row    *)
(* and one data row, each with a non-empty cell, yields two lines.          *)
C9_HeaderCellsThenDataCells ==
    pc = "tabulated" =>
        LET rows == RowsWithText(page.tables)
            lines == LinesOf(extracted)
        IN  /\ extracted =
                ConcatAll([j \in 1..Len(rows) |-> RecordOf(HeaderThenData(rows[j]))])
            /\ EndsLines(extracted)
            /\ SingleLineCells(page.tables) =>
                /\ Len(lines) = Len(rows)
                /\ \A j \in 1..Len(rows) :
                    SplitOn(lines[j], "\t") = TrimmedCells(HeaderThenData(rows[j]))
            /\ page.tables = << <<RowHeader, RowData>> >> =>
                lines = << <<"Name", "\t", "Price">>, <<"Latte", "\t">> >>

C9_Witness ==
    /\ pc = "tabulated"
    /\ page.tables = << <<RowMixed, RowBlank>> >>
    /\ extracted = <<"Total", "\t", "120", "\n">>

(* C10: the synthesizer is called at most once, only with a context that is *)
(* not blank after trimming and only after a non-empty search result; a     *)
(* blank extraction ends the request with the "no content extracted" answer; *)
(* and the outbound calls of a request are at most one search call, one     *)
(* browser session and one synthesis call, in that order.                   *)
C10_SynthesisOnlyWithContent ==
    /\ Len(geminiArgs) <= 1
    /\ \A i \in 1..Len(geminiArgs) :
        /\ Truthy(strip(geminiArgs[i].scraped_text))
        /\ geminiArgs[i].scraped_text = extracted
        /\ links # <<>>
    /\ (ScrapeReturned /\ ~Truthy(strip(extracted))) =>
        /\ pc = "done"
        /\ response = [status |-> 200, answer |-> MsgNoContent]
        /\ geminiArgs = <<>>
    /\ IsPrefix(CallsTo, <<"search", "browser", "gemini">>)
    /\ Len(geminiArgs) = Cardinality({i \in 1..Len(calls) : calls[i].to = "gemini"})

C10_Witness ==
    /\ Done
    /\ CallsTo = <<"search", "browser", "gemini">>
    /\ Len(geminiArgs) = 1
    /\ Truthy(strip(geminiArgs[1].scraped_text))
    /\ \E i \in 1..Len(visits) : visits[i].page = "mixed" /\ visits[i].raised = "generic"

=============================================================================
